---- MODULE Spec2Model ----
(***************************************************************************)
(* Edition-based news selection: the relevance filter and the candidate    *)
(* selector of src/collector/news_filter.py and the edition scheduler of   *)
(* src/agents/daily_news_selector.py, over the news table of the store.    *)
(*                                                                         *)
(* Text is a sequence of Unicode code points (one number per character),   *)
(* so that Python's substring test `kw in combined` is a real substring    *)
(* search.  A timestamp string "%Y-%m-%d %H:%M:%S" is the sequence         *)
(* <<date, H, H, M, M, S, S>> of its date and its six digits, compared     *)
(* the way strings are compared (lexicographically, a proper prefix        *)
(* first).  SQL NULL / Python None is the value NULL.                      *)
(***************************************************************************)
EXTENDS Integers, Sequences, FiniteSets, TLC

VARIABLES
  store,         \* the news table: row id |-> row (ids are 1..Len(store))
  now,           \* the wall clock, [day, tod] (tod = second of the day)
  run,           \* per invocation of run_edition_selection: its locals
  news_list,     \* argument of a direct call of balance_categories
  target_count,  \* its target_count (NOT_CALLED before the call)
  selected       \* what that call returned (<<>> before the call)

vars == <<store, now, run, news_list, target_count, selected>>

\* SQL NULL / Python None in a column of names (status, edition)
NULL == "NULL"

\* SQL NULL / Python None in a column of text or timestamps
NULL_TEXT == <<0 - 1>>

\* target_count before balance_categories is called directly
NOT_CALLED == 0 - 1

Min(a, b) == IF a <= b THEN a ELSE b

MinOf(S) == CHOOSE x \in S : \A y \in S : x <= y

(***************************************************************************)
(* Bounds of the model.                                                    *)
(***************************************************************************)
\* longest candidate list handed to balance_categories directly
MaxLen == 4
\* last calendar day the clock reaches
MaxDay == 2
\* rows the crawler may insert into the news table
NumRecords == 2

(***************************************************************************)
(* Strings and timestamps.                                                 *)
(***************************************************************************)
\* Python / SQLite string comparison a < b
RECURSIVE StrLess(_, _)
StrLess(a, b) ==
  IF b = <<>> THEN FALSE
  ELSE IF a = <<>> THEN TRUE
  ELSE IF a[1] # b[1] THEN a[1] < b[1]
  ELSE StrLess(Tail(a), Tail(b))

StrLE(a, b) == a = b \/ StrLess(a, b)

\* datetime.time(h, m, s) as the second of the day
time(h, m, s) == h * 3600 + m * 60 + s

\* strftime("%Y-%m-%d %H:%M:%S") of datetime.combine(day, tod)
strftime(day, tod) ==
  LET h == tod \div 3600
      m == (tod % 3600) \div 60
      s == tod % 60
  IN  <<day, h \div 10, h % 10, m \div 10, m % 10, s \div 10, s % 10>>

\* strftime("%Y-%m-%d")
strftime_date(day) == <<day>>

\* SQLite DATE(x): the date part of a timestamp string, NULL for NULL
DATE(ts) == IF ts = NULL_TEXT THEN NULL_TEXT ELSE <<ts[1]>>

\* the value of datetime.now() the table keeps in updated_at.  The column
\* is only ever read through DATE(updated_at), so the table keeps the
\* timestamp up to its date part and drops the time of day.
Stamp(t) == strftime_date(t.day)

(***************************************************************************)
(* Candidate Selector: balance_categories (news_filter.py:110-164).        *)
(* An item is a record with the keys id, source, category, priority_score, *)
(* published_at.                                                           *)
(***************************************************************************)
main_categories ==
  <<"policy", "macro", "industry", "energy", "finance", "company", "tech">>

\* the default category '기타'
DEFAULT_CATEGORY == "other"

AllCategories == {main_categories[i] : i \in 1..Len(main_categories)} \cup {DEFAULT_CATEGORY}

\* sort key (priority_score, published_at): a < b
KeyLess(a, b) ==
  \/ a.priority_score < b.priority_score
  \/ /\ a.priority_score = b.priority_score
     /\ StrLess(a.published_at, b.published_at)

\* InsertDesc that puts x before the elements of equal key
InsertDescTiesFirst(sorted, x) ==
  LET notabove == {i \in 1..Len(sorted) : ~KeyLess(x, sorted[i])}
      k == IF notabove = {} THEN Len(sorted) + 1 ELSE MinOf(notabove)
  IN  SubSeq(sorted, 1, k - 1) \o <<x>> \o SubSeq(sorted, k, Len(sorted))

\* insert x into a list sorted descending, after every element not below it
InsertDesc(sorted, x) ==
  LET below == {i \in 1..Len(sorted) : KeyLess(sorted[i], x)}
      k == IF below = {} THEN Len(sorted) + 1 ELSE MinOf(below)
  IN  SubSeq(sorted, 1, k - 1) \o <<x>> \o SubSeq(sorted, k, Len(sorted))

\* list.sort(key=(priority_score, published_at), reverse=True): stable
RECURSIVE SortDescFrom(_, _)
SortDescFrom(acc, rest) ==
  IF rest = <<>> THEN acc
  ELSE SortDescFrom(InsertDesc(acc, Head(rest)), Tail(rest))

SortDesc(s) == SortDescFrom(<<>>, s)

SelectSeq2(s, cat) ==
  LET Test(x) == x.category = cat IN SelectSeq(s, Test)

\* by_category after the grouping loop and the per-category sort
GroupByCategory(list) ==
  [cat \in AllCategories |-> SortDesc(SelectSeq2(list, cat))]

\* the keys of by_category in insertion order (first appearance in the list)
RECURSIVE CategoryOrder(_, _)
CategoryOrder(list, seen) ==
  IF list = <<>> THEN seen
  ELSE LET c == Head(list).category
           have == \E i \in 1..Len(seen) : seen[i] = c
       IN  CategoryOrder(Tail(list), IF have THEN seen ELSE Append(seen, c))

\* RemoveFirst that leaves the list as it is
RemoveNothing(s, x) == s

\* list.remove(x): drops the first element equal to x
RemoveFirst(s, x) ==
  LET at == {i \in 1..Len(s) : s[i] = x}
      k == MinOf(at)
  IN  IF at = {} THEN s ELSE SubSeq(s, 1, k - 1) \o SubSeq(s, k + 1, Len(s))

\* per-source cap of the category round-robin (news_filter.py:135)
Phase1Cap == 2
\* per-source cap of the fill phase (news_filter.py:160)
Phase2Cap == 3

\* FirstUnderCap with the comparison off by one (<= for <)
FirstUnderCapInclusive(group, by_source, cap) ==
  LET ok == {i \in 1..Len(group) : by_source[group[i].source] <= cap}
  IN  IF ok = {} THEN 0 ELSE MinOf(ok)

\* index of the first item of the group whose source is below the cap, or 0
FirstUnderCap(group, by_source, cap) ==
  LET ok == {i \in 1..Len(group) : by_source[group[i].source] < cap}
  IN  IF ok = {} THEN 0 ELSE MinOf(ok)

\* phase 1 from main category number i on; st = [selected, by_source,
\* by_category, returned], returned = the early return of line 142 was taken
RECURSIVE Phase1(_, _, _)
Phase1(i, st, tc) ==
  IF i > Len(main_categories) THEN st
  ELSE
    LET cat == main_categories[i]
        group == st.by_category[cat]
    IN  IF group = <<>> THEN Phase1(i + 1, st, tc)
        ELSE
          LET k == FirstUnderCap(group, st.by_source, Phase1Cap)
              news == group[k]
              st1 == IF k = 0 THEN st
                     ELSE [st EXCEPT
                             !.selected = Append(@, news),
                             !.by_source[news.source] = @ + 1,
                             !.by_category[cat] = RemoveFirst(@, news)]
          IN  IF Len(st1.selected) >= tc
              THEN [st1 EXCEPT !.returned = TRUE]
              ELSE Phase1(i + 1, st1, tc)

\* the sources a list mentions
SourcesOf(list) == {list[i].source : i \in 1..Len(list)}

Phase1Start(list) ==
  [selected |-> <<>>,
   by_source |-> [s \in SourcesOf(list) |-> 0],
   by_category |-> GroupByCategory(list),
   returned |-> FALSE]

\* the state of balance_categories when its phase 1 loop ends
Phase1Result(list, tc) == Phase1(1, Phase1Start(list), tc)

\* remaining: the leftover groups concatenated in key order, then sorted
RECURSIVE ConcatGroups(_, _)
ConcatGroups(order, by_category) ==
  IF order = <<>> THEN <<>>
  ELSE by_category[Head(order)] \o ConcatGroups(Tail(order), by_category)

\* Remaining with the groups of the main categories only
RemainingMainOnly(list, by_category) ==
  SortDesc(ConcatGroups(main_categories, by_category))

Remaining(list, by_category) ==
  SortDesc(ConcatGroups(CategoryOrder(list, <<>>), by_category))

\* Phase2 with the cap of phase 1 in place of its own
RECURSIVE Phase2WithPhase1Cap(_, _, _)
Phase2WithPhase1Cap(remaining, st, tc) ==
  IF remaining = <<>> \/ Len(st.selected) >= tc THEN st
  ELSE
    LET news == Head(remaining)
        st1 == IF st.by_source[news.source] < Phase1Cap
               THEN [st EXCEPT !.selected = Append(@, news),
                               !.by_source[news.source] = @ + 1]
               ELSE st
    IN  Phase2WithPhase1Cap(Tail(remaining), st1, tc)

\* the fill loop of phase 2 over the sorted remaining items
RECURSIVE Phase2(_, _, _)
Phase2(remaining, st, tc) ==
  IF remaining = <<>> \/ Len(st.selected) >= tc THEN st
  ELSE
    LET news == Head(remaining)
        st1 == IF st.by_source[news.source] < Phase2Cap
               THEN [st EXCEPT !.selected = Append(@, news),
                               !.by_source[news.source] = @ + 1]
               ELSE st
    IN  Phase2(Tail(remaining), st1, tc)

\* selected[:target_count] for target_count >= 0
Truncate(s, n) == SubSeq(s, 1, Min(n, Len(s)))

balance_categories(list, tc) ==
  LET p1 == Phase1Result(list, tc)
  IN  IF p1.returned THEN p1.selected
      ELSE IF Len(p1.selected) < tc
           THEN Truncate(Phase2(Remaining(list, p1.by_category), p1, tc).selected, tc)
           ELSE Truncate(p1.selected, tc)

(***************************************************************************)
(* Relevance Filter (news_filter.py:6-108).  The keyword tables are the    *)
(* source's, character by character (code points).                         *)
(***************************************************************************)
\* EXCLUDED_KEYWORDS (news_filter.py:6)
EXCLUDED_KEYWORDS ==
  << <<35770, 35780>>,  \* 论评
     <<19987, 26639>>,  \* 专栏
     <<31038, 35770>>,  \* 社论
     <<35266, 28857>>,  \* 观点
     <<35780, 35770>>,  \* 评论
     <<25237, 31295>>,  \* 投稿
     <<24191, 21578>>,  \* 广告
     <<80, 82>>,  \* PR
     <<26032, 38395, 31295>>,  \* 新闻稿
     <<36190, 21161>>,  \* 赞助
     <<19987, 39064>>,  \* 专题
     <<35775, 35848>>,  \* 访谈
     <<24231, 35848>>,  \* 座谈
     <<35770, 22363>>,  \* 论坛
     <<27963, 21160>>,  \* 活动
     <<24320, 24149>> >>  \* 开幕

\* CONCRETE_KEYWORDS (news_filter.py:8)
CONCRETE_KEYWORDS ==
  << <<21457, 24067>>,  \* 发布
     <<20844, 24067>>,  \* 公布
     <<32479, 35745>>,  \* 统计
     <<25968, 25454>>,  \* 数据
     <<25253, 21578>>,  \* 报告
     <<25919, 31574>>,  \* 政策
     <<25514, 26045>>,  \* 措施
     <<26041, 26696>>,  \* 方案
     <<35268, 23450>>,  \* 规定
     <<26465, 20363>>,  \* 条例
     <<22686, 38271>>,  \* 增长
     <<19979, 38477>>,  \* 下降
     <<19978, 28072>>,  \* 上涨
     <<19979, 36300>>,  \* 下跌
     <<21516, 27604>>,  \* 同比
     <<29615, 27604>> >>  \* 环比

\* GOVERNMENT_ADMIN_KEYWORDS (news_filter.py:11-15)
GOVERNMENT_ADMIN_KEYWORDS ==
  << <<20154, 20107, 20219, 20813>>,  \* 人事任免
     <<24178, 37096>>,  \* 干部
     <<20826, 22996>>,  \* 党委
     <<32452, 32455, 37096>>,  \* 组织部
     <<32426, 22996>>,  \* 纪委
     <<20851, 20110, 21360, 21457>>,  \* 关于印发
     <<21150, 20844, 21381, 20851, 20110>>,  \* 办公厅关于
     <<24037, 20316, 26041, 26696>>,  \* 工作方案
     <<31649, 29702, 21150, 27861>>,  \* 管理办法
     <<20154, 27665, 25919, 24220, 21150, 20844>>,  \* 人民政府办公
     <<36890, 30693, 22914, 19979>>,  \* 通知如下
     <<29616, 21360, 21457, 32473, 20320, 20204>> >>  \* 现印发给你们

\* CATEGORIES['정책'] (news_filter.py:18)
KEYWORDS_policy ==
  << <<25919, 31574>>,  \* 政策
     <<25919, 24220>>,  \* 政府
     <<36890, 30693>>,  \* 通知
     <<35268, 21010>>,  \* 规划
     <<24378, 21046>>,  \* 强制
     <<24847, 35265>> >>  \* 意见

\* CATEGORIES['거시경제'] (news_filter.py:19)
KEYWORDS_macro ==
  << <<32463, 27982>>,  \* 经济
     <<22686, 38271>>,  \* 增长
     <<28040, 36153>>,  \* 消费
     <<25237, 36164>>,  \* 投资
     <<36135, 24065>>,  \* 货币
     <<21033, 29575>>,  \* 利率
     <<20648, 33988>>,  \* 储蓄
     <<20154, 21475>>,  \* 人口
     <<21171, 21160>>,  \* 劳动
     <<20986, 21475>>,  \* 出口
     <<36827, 21475>>,  \* 进口
     <<36152, 26131>>,  \* 贸易
     <<19968, 24102, 19968, 36335>> >>  \* 一带一路

\* CATEGORIES['산업'] (news_filter.py:20)
KEYWORDS_industry ==
  << <<21046, 36896>>,  \* 制造
     <<20135, 19994>>,  \* 产业
     <<24037, 19994>>,  \* 工业
     <<19978, 28216>>,  \* 上游
     <<19979, 28216>>,  \* 下游
     <<24320, 21457, 21306>>,  \* 开发区
     <<20135, 19994, 22253, 21306>> >>  \* 产业园区

\* CATEGORIES['에너지'] (news_filter.py:21)
KEYWORDS_energy ==
  << <<33021, 28304>>,  \* 能源
     <<30005, 21147>>,  \* 电力
     <<30005, 27744>>,  \* 电池
     <<26032, 33021, 28304>>,  \* 新能源
     <<22826, 38451, 33021>>,  \* 太阳能
     <<20809, 20239>>,  \* 光伏
     <<27682, 33021>>,  \* 氢能
     <<26680, 33021>>,  \* 核能
     <<26680, 32858, 21464>>,  \* 核聚变
     <<38029, 33021>>,  \* 钍能
     <<39118, 33021>>,  \* 风能
     <<39118, 30005>>,  \* 风电
     <<22320, 28909>> >>  \* 地热

\* CATEGORIES['금융'] (news_filter.py:22)
KEYWORDS_finance ==
  << <<38134, 34892>>,  \* 银行
     <<37329, 34701>>,  \* 金融
     <<34701, 36164>>,  \* 融资
     <<32929, 31080>>,  \* 股票
     <<20538, 21048>>,  \* 债券
     <<35777, 21048>>,  \* 证券
     <<19978, 24066>> >>  \* 上市

\* CATEGORIES['기업'] (news_filter.py:23)
KEYWORDS_company ==
  << <<20225, 19994>>,  \* 企业
     <<20844, 21496>>,  \* 公司
     <<32929>>,  \* 股
     <<39640, 31649>>,  \* 高管
     <<24182, 36141>>,  \* 并购
     <<32929, 19996>>,  \* 股东
     <<39033, 30446>> >>  \* 项目

\* CATEGORIES['기술'] (news_filter.py:24)
KEYWORDS_tech ==
  << <<25216, 26415>>,  \* 技术
     <<31185, 25216>>,  \* 科技
     <<65, 73>>,  \* AI
     <<26426, 22120, 20154>>,  \* 机器人
     <<26080, 20154, 26426>>,  \* 无人机
     <<26234, 33021, 21046, 36896>>,  \* 智能制造
     <<29983, 29289>>,  \* 生物
     <<33258, 21160, 39550, 39542>>,  \* 自动驾驶
     <<36229, 31639>>,  \* 超算
     <<37327, 23376>>,  \* 量子
     <<33322, 22825>>,  \* 航天
     <<26032, 26448, 26009>>,  \* 新材料
     <<54, 71>>,  \* 6G
     <<53, 71>>,  \* 5G
     <<51, 68, 25171, 21360>> >>  \* 3D打印

\* the foreign terms of is_domestic_news (news_filter.py:72)
FOREIGN_KEYWORDS ==
  << <<32654, 22269>>,  \* 美国
     <<27431, 27954>>,  \* 欧洲
     <<26085, 26412>>,  \* 日本
     <<38889, 22269>>,  \* 韩国
     <<19996, 21335, 20122>>,  \* 东南亚
     <<22269, 38469>> >>  \* 国际

\* the domestic terms of is_domestic_news (news_filter.py:73)
DOMESTIC_KEYWORDS ==
  << <<20013, 22269>>,  \* 中国
     <<22269, 20869>>,  \* 国内
     <<26412, 22303>>,  \* 本土
     <<22830, 34892>>,  \* 央行
     <<21457, 25913, 22996>>,  \* 发改委
     <<24037, 20449, 37096>> >>  \* 工信部

\* the characters that end \d+% \d+亿 \d+万 \d+兆 \d+元 (news_filter.py:7)
DATA_UNITS ==
  << <<37>>,  \* %
     <<20159>>,  \* 亿
     <<19975>>,  \* 万
     <<20806>>,  \* 兆
     <<20803>> >>  \* 元

\* Python's `kw in text`
Contains(text, kw) ==
  \E i \in 0..(Len(text) - Len(kw)) : SubSeq(text, i + 1, i + Len(kw)) = kw

\* any(kw in text for kw in kws)
AnyKeyword(text, kws) == \E k \in 1..Len(kws) : Contains(text, kws[k])

\* sum(1 for kw in kws if kw in text)
CountKeywords(text, kws) == Cardinality({k \in 1..Len(kws) : Contains(text, kws[k])})

\* \d of a Python str pattern, for the ASCII and the full-width digits
IsDigit(c) == c \in 48..57 \/ c \in 65296..65305

\* re.search(r'\d+X', text) for a one-character X
MatchesDigitsThen(text, unit) ==
  \E i \in 1..(Len(text) - 1) : IsDigit(text[i]) /\ text[i + 1] = unit

\* re.search(r'\d+\.\d+%', text)
MatchesDecimalPercent(text) ==
  \E i \in 1..Len(text) : \E j \in (i + 2)..(Len(text) - 1) :
    /\ IsDigit(text[i])
    /\ text[i + 1] = 46
    /\ \A k \in (i + 2)..j : IsDigit(text[k])
    /\ text[j + 1] = 37

\* any(re.search(p, text) for p in DATA_PATTERNS)
MatchesDataPattern(text) ==
  \/ \E u \in 1..Len(DATA_UNITS) : MatchesDigitsThen(text, DATA_UNITS[u][1])
  \/ MatchesDecimalPercent(text)

\* '印发' and '办公' markers of has_analytical_value (news_filter.py:60)
ISSUANCE_MARKER == <<21360, 21457>>
OFFICE_MARKER == <<21150, 20844>>

is_factual_news(title, content) ==
  LET combined == title \o content
  IN  /\ ~AnyKeyword(combined, EXCLUDED_KEYWORDS)
      /\ ~AnyKeyword(combined, GOVERNMENT_ADMIN_KEYWORDS)

\* the length a title must exceed to pass on length alone (news_filter.py:67)
TitleLengthFallback == 15

\* has_analytical_value with len(title) >= 15 for len(title) > 15
has_analytical_value_inclusive(title, content) ==
  LET combined == title \o content
  IN  IF Contains(title, ISSUANCE_MARKER) /\ Contains(title, OFFICE_MARKER) THEN FALSE
      ELSE IF MatchesDataPattern(combined) THEN TRUE
      ELSE IF CountKeywords(combined, CONCRETE_KEYWORDS) >= 2 THEN TRUE
      ELSE Len(title) >= TitleLengthFallback

has_analytical_value(title, content) ==
  LET combined == title \o content
  IN  IF Contains(title, ISSUANCE_MARKER) /\ Contains(title, OFFICE_MARKER) THEN FALSE
      ELSE IF MatchesDataPattern(combined) THEN TRUE
      ELSE IF CountKeywords(combined, CONCRETE_KEYWORDS) >= 2 THEN TRUE
      ELSE Len(title) > TitleLengthFallback

is_domestic_news(title, content) ==
  LET combined == title \o content
      foreign == CountKeywords(combined, FOREIGN_KEYWORDS)
      domestic == CountKeywords(combined, DOMESTIC_KEYWORDS)
  IN  domestic > foreign \/ foreign <= 1

\* CATEGORIES in declaration order: the keyword list of main_categories[i]
CATEGORIES ==
  <<KEYWORDS_policy, KEYWORDS_macro, KEYWORDS_industry, KEYWORDS_energy,
    KEYWORDS_finance, KEYWORDS_company, KEYWORDS_tech>>

\* categorize_news with the last of the categories of highest count
categorize_news_last_wins(title, content) ==
  LET combined == title \o content
      score(i) == CountKeywords(combined, CATEGORIES[i])
      ties == {i \in 1..Len(CATEGORIES) :
                 \A j \in 1..Len(CATEGORIES) : score(j) <= score(i)}
      best == CHOOSE i \in ties : \A j \in ties : j <= i
  IN  IF Len(CATEGORIES) = 0 THEN DEFAULT_CATEGORY ELSE main_categories[best]

\* max(scores.items(), key=count)[0]: the first category with the highest
\* count; scores always holds the 7 categories, so the '기타' branch of
\* line 82 is never taken
categorize_news(title, content) ==
  LET combined == title \o content
      score(i) == CountKeywords(combined, CATEGORIES[i])
      best == MinOf({i \in 1..Len(CATEGORIES) :
                       \A j \in 1..Len(CATEGORIES) : score(j) <= score(i)})
  IN  IF Len(CATEGORIES) = 0 THEN DEFAULT_CATEGORY ELSE main_categories[best]

\* SOURCE_PRIORITY.get(source, 5) (news_filter.py:28-39, 102)
source_priority(source) ==
  CASE source = "36kr" -> 10
    [] source = "caixin" -> 10
    [] source = "people" -> 9
    [] source = "ce" -> 9
    [] source = "stcn" -> 9
    [] source = "xinhua" -> 8
    [] source = "huxiu" -> 8
    [] source = "beijing_gov" -> 3
    [] source = "shanghai_gov" -> 3
    [] source = "shenzhen_gov" -> 3
    [] OTHER -> 5

\* bonus of a domestic item (news_filter.py:103)
DomesticBonus == 5

\* Annotate with the bonus added to a priority_score the item already carries
AnnotateAccumulating(news) ==
  LET title == news.original_title
      content == news.original_content
      dom == is_domestic_news(title, content)
      base == IF "priority_score" \in DOMAIN news
              THEN news.priority_score ELSE source_priority(news.source)
  IN  [id |-> news.id,
       original_title |-> title,
       original_content |-> content,
       published_at |-> news.published_at,
       source |-> news.source,
       category |-> categorize_news(title, content),
       is_domestic |-> dom,
       priority_score |-> base + (IF dom THEN DomesticBonus ELSE 0)]

\* the body of the loop of filter_news for an item that passes both gates
Annotate(news) ==
  LET title == news.original_title
      content == news.original_content
      dom == is_domestic_news(title, content)
  IN  [id |-> news.id,
       original_title |-> title,
       original_content |-> content,
       published_at |-> news.published_at,
       source |-> news.source,
       category |-> categorize_news(title, content),
       is_domestic |-> dom,
       priority_score |-> source_priority(news.source) + (IF dom THEN DomesticBonus ELSE 0)]

Passes(news) ==
  /\ is_factual_news(news.original_title, news.original_content)
  /\ has_analytical_value(news.original_title, news.original_content)

RECURSIVE filter_news(_)
filter_news(list) ==
  IF list = <<>> THEN <<>>
  ELSE IF Passes(Head(list))
       THEN <<Annotate(Head(list))>> \o filter_news(Tail(list))
       ELSE filter_news(Tail(list))

(***************************************************************************)
(* Titles of the articles the crawler delivers.                            *)
(***************************************************************************)
\* 央行发布货币政策报告: two concrete terms; policy and macro tie at 1
TITLE_POLICY == <<22830, 34892, 21457, 24067, 36135, 24065, 25919, 31574, 25253, 21578>>

\* 消费同比增长5%: a numeric pattern; macro
TITLE_MACRO == <<28040, 36153, 21516, 27604, 22686, 38271, 53, 37>>

\* 社论:经济增长: an exclusion term
TITLE_EDITORIAL == <<31038, 35770, 58, 32463, 27982, 22686, 38271>>

\* 关于印发工作方案的通知: government-administrative terms
TITLE_CIRCULAR == <<20851, 20110, 21360, 21457, 24037, 20316, 26041, 26696, 30340, 36890, 30693>>

\* 新能源: neither data, nor two concrete terms, nor long
TITLE_SHORT == <<26032, 33021, 28304>>

\* 今天上午在北京举行了一次全体会议: 16 characters, no keyword of any table
TITLE_PLAIN == <<20170, 22825, 19978, 21320, 22312, 21271, 20140, 20030, 34892, 20102, 19968, 27425, 20840, 20307, 20250, 35758>>

\* 美国欧洲日本公布数据报告: three foreign terms, no domestic one
TITLE_FOREIGN == <<32654, 22269, 27431, 27954, 26085, 26412, 20844, 24067, 25968, 25454, 25253, 21578>>


(***************************************************************************)
(* Edition Scheduler (daily_news_selector.py).                             *)
(***************************************************************************)
Editions == {"morning", "afternoon", "evening"}

\* EDITION_CONFIG with the evening window running to the end of the day
EDITION_CONFIG_ToMidnight(edition) ==
  CASE edition = "morning"   -> [start |-> time(0, 0, 0),  end |-> time(6, 59, 59)]
    [] edition = "afternoon" -> [start |-> time(7, 0, 0),  end |-> time(13, 59, 59)]
    [] edition = "evening"   -> [start |-> time(14, 0, 0), end |-> time(23, 59, 59)]

\* EDITION_CONFIG with the afternoon window opening at midnight
EDITION_CONFIG_Overlapping(edition) ==
  CASE edition = "morning"   -> [start |-> time(0, 0, 0),  end |-> time(6, 59, 59)]
    [] edition = "afternoon" -> [start |-> time(0, 0, 0),  end |-> time(13, 59, 59)]
    [] edition = "evening"   -> [start |-> time(14, 0, 0), end |-> time(21, 59, 59)]

\* EDITION_CONFIG[edition]['start'] and ['end'] (daily_news_selector.py:32-51)
EDITION_CONFIG(edition) ==
  CASE edition = "morning"   -> [start |-> time(0, 0, 0),  end |-> time(6, 59, 59)]
    [] edition = "afternoon" -> [start |-> time(7, 0, 0),  end |-> time(13, 59, 59)]
    [] edition = "evening"   -> [start |-> time(14, 0, 0), end |-> time(21, 59, 59)]

\* get_current_edition with <= for <
get_current_edition_inclusive(tod) ==
  IF tod <= time(7, 0, 0) THEN "morning"
  ELSE IF tod <= time(14, 0, 0) THEN "afternoon"
  ELSE "evening"

\* the edition of the wall-clock time tod
get_current_edition(tod) ==
  IF tod < time(7, 0, 0) THEN "morning"
  ELSE IF tod < time(14, 0, 0) THEN "afternoon"
  ELSE "evening"

\* get_edition_time_window with a window that opens a day before target_date
get_edition_time_window_from_yesterday(edition, target_date) ==
  LET config == EDITION_CONFIG(edition)
  IN  <<strftime(target_date - 1, config.start), strftime(target_date, config.end)>>

\* (start_datetime_str, end_datetime_str) of an edition on a date
get_edition_time_window(edition, target_date) ==
  LET config == EDITION_CONFIG(edition)
  IN  <<strftime(target_date, config.start), strftime(target_date, config.end)>>

\* published_at >= window_start AND published_at <= window_end, on strings
InWindow(published_at, window) ==
  StrLE(window[1], published_at) /\ StrLE(published_at, window[2])

(***************************************************************************)
(* SQL's three-valued logic, for the WHERE clauses.                        *)
(***************************************************************************)
SqlTrue == "true"
SqlFalse == "false"
SqlUnknown == "unknown"

SqlBool(b) == IF b THEN SqlTrue ELSE SqlFalse

SqlAnd(a, b) ==
  IF a = SqlFalse \/ b = SqlFalse THEN SqlFalse
  ELSE IF a = SqlUnknown \/ b = SqlUnknown THEN SqlUnknown
  ELSE SqlTrue

SqlOr(a, b) ==
  IF a = SqlTrue \/ b = SqlTrue THEN SqlTrue
  ELSE IF a = SqlUnknown \/ b = SqlUnknown THEN SqlUnknown
  ELSE SqlFalse

\* a = b and a != b on a column of names
SqlEq(a, b) == IF a = NULL \/ b = NULL THEN SqlUnknown ELSE SqlBool(a = b)
SqlNe(a, b) == IF a = NULL \/ b = NULL THEN SqlUnknown ELSE SqlBool(a # b)

\* a <= b and a < b on a column of text
SqlTextLE(a, b) ==
  IF a = NULL_TEXT \/ b = NULL_TEXT THEN SqlUnknown ELSE SqlBool(StrLE(a, b))
SqlTextLess(a, b) ==
  IF a = NULL_TEXT \/ b = NULL_TEXT THEN SqlUnknown ELSE SqlBool(StrLess(a, b))

\* COALESCE(x, '')
CoalesceText(x) == IF x = NULL_TEXT THEN <<>> ELSE x

(***************************************************************************)
(* The news table.                                                         *)
(***************************************************************************)
\* importance_score REAL DEFAULT 0.5, in tenths (models.py:33)
DefaultImportance == 5
\* the 1.0 of `importance_score <= 1.0`, in tenths
MaxImportance == 10

\* Central government sources excluded from expert review
excluded_sources == {"ndrc", "pboc", "mofcom", "nbs", "gov", "xinhuanet"}

Ids == 1..Len(store)

\* the WHERE clause of get_eligible_candidates, for one row
EligibleWhere(row, window) ==
  SqlAnd(SqlBool(row.analyzed_at # NULL_TEXT),
  SqlAnd(SqlOr(SqlEq(row.expert_review_status, "none"),
               SqlBool(row.expert_review_status = NULL)),
  SqlAnd(SqlNe(row.expert_review_status, "skipped"),
  SqlAnd(SqlBool(row.published_at # NULL_TEXT),
  SqlAnd(SqlTextLE(window[1], row.published_at),
  SqlAnd(SqlTextLE(row.published_at, window[2]),
  SqlAnd(SqlBool(row.edition = NULL),
  SqlAnd(SqlBool(row.importance_score <= MaxImportance),
  SqlAnd(SqlBool(CoalesceText(row.translated_title) # <<>>),
         SqlBool(row.source \notin excluded_sources))))))))))

\* the ids of the rows the query of get_eligible_candidates returns
EligibleIds(table, edition, today) ==
  {id \in 1..Len(table) :
     EligibleWhere(table[id], get_edition_time_window(edition, today)) = SqlTrue}

\* ORDER BY published_at DESC: every order of the ids that is descending in
\* published_at (SQL leaves the order of rows with equal keys open)
RECURSIVE OrdersByPublishedDesc(_, _)
OrdersByPublishedDesc(table, ids) ==
  IF ids = {} THEN {<<>>}
  ELSE LET top == {i \in ids : \A j \in ids :
                     ~StrLess(table[i].published_at, table[j].published_at)}
       IN  UNION {{<<i>> \o rest : rest \in OrdersByPublishedDesc(table, ids \ {i})}
                  : i \in top}

\* the column as it is read, without the `or ''`
OrEmptyAbsent(x) == x

\* x or ''
OrEmpty(x) == IF x = NULL_TEXT THEN <<>> ELSE x

\* the candidate dict built from a fetched row (daily_news_selector.py:110-116)
CandidateOf(table, id) ==
  [id |-> id,
   original_title |-> OrEmpty(table[id].original_title),
   original_content |-> OrEmpty(table[id].original_content),
   published_at |-> table[id].published_at,
   source |-> table[id].source]

\* the lists get_eligible_candidates may return
get_eligible_candidates(table, edition, today) ==
  {[k \in 1..Len(order) |-> CandidateOf(table, order[k])] :
     order \in OrdersByPublishedDesc(table, EligibleIds(table, edition, today))}

\* StaleIds with DATE(updated_at) <= today for DATE(updated_at) < today
StaleIdsUpToToday(table, today) ==
  {id \in 1..Len(table) :
     SqlAnd(SqlEq(table[id].expert_review_status, "queued_today"),
            SqlTextLE(DATE(table[id].updated_at), strftime_date(today))) = SqlTrue}

\* StaleIds without the condition on the status
StaleIdsAnyStatus(table, today) ==
  {id \in 1..Len(table) :
     SqlTextLess(DATE(table[id].updated_at), strftime_date(today)) = SqlTrue}

\* StaleIds with the date of yesterday in the place of today
StaleIdsBeforeYesterday(table, today) ==
  {id \in 1..Len(table) :
     SqlAnd(SqlEq(table[id].expert_review_status, "queued_today"),
            SqlTextLess(DATE(table[id].updated_at), strftime_date(today - 1))) = SqlTrue}

\* the rows the UPDATE of reset_stale_queue matches
StaleIds(table, today) ==
  {id \in 1..Len(table) :
     SqlAnd(SqlEq(table[id].expert_review_status, "queued_today"),
            SqlTextLess(DATE(table[id].updated_at), strftime_date(today))) = SqlTrue}

\* reset_stale_queue with the status left as it is
reset_keeping_status(table, t) ==
  [id \in 1..Len(table) |->
     IF id \in StaleIds(table, t.day)
     THEN [table[id] EXCEPT !.edition = NULL,
                            !.updated_at = Stamp(t)]
     ELSE table[id]]

\* the table after the UPDATE of reset_stale_queue at time t
reset_stale_queue(table, t) ==
  [id \in 1..Len(table) |->
     IF id \in StaleIds(table, t.day)
     THEN [table[id] EXCEPT !.expert_review_status = "none",
                            !.edition = NULL,
                            !.updated_at = Stamp(t)]
     ELSE table[id]]

\* the elements of a list of ids
IdSet(news_ids) == {news_ids[i] : i \in 1..Len(news_ids)}

\* update_selected_status without the WHERE id IN (...) of its UPDATE
update_every_row(table, news_ids, edition, t) ==
  IF news_ids = <<>> THEN table
  ELSE [id \in 1..Len(table) |->
          [table[id] EXCEPT !.expert_review_status = "queued_today",
                            !.edition = edition,
                            !.updated_at = Stamp(t)]]

\* update_selected_status whose UPDATE also matches the rows already queued
update_selected_and_queued(table, news_ids, edition, t) ==
  IF news_ids = <<>> THEN table
  ELSE [id \in 1..Len(table) |->
          IF \/ id \in IdSet(news_ids)
             \/ table[id].expert_review_status = "queued_today"
          THEN [table[id] EXCEPT !.expert_review_status = "queued_today",
                                 !.edition = edition,
                                 !.updated_at = Stamp(t)]
          ELSE table[id]]

\* the table after the UPDATE of update_selected_status at time t
update_selected_status(table, news_ids, edition, t) ==
  IF news_ids = <<>> THEN table
  ELSE [id \in 1..Len(table) |->
          IF id \in IdSet(news_ids)
          THEN [table[id] EXCEPT !.expert_review_status = "queued_today",
                                 !.edition = edition,
                                 !.updated_at = Stamp(t)]
          ELSE table[id]]

\* cursor.rowcount of an UPDATE that would skip the rows already assigned
UpdatedCountUnassigned(table, news_ids) ==
  Cardinality({id \in 1..Len(table) :
                 id \in IdSet(news_ids) /\ table[id].edition = NULL})

\* cursor.rowcount of that UPDATE
UpdatedCount(table, news_ids) ==
  Cardinality({id \in 1..Len(table) : id \in IdSet(news_ids)})

\* target_count of the call in run_edition_selection (daily_news_selector.py:251)
EditionTargetCount == 10

(***************************************************************************)
(* The environment of the pipeline: the clock, the crawler, the analyzer   *)
(* and the human review.                                                   *)
(***************************************************************************)
\* the instants of a day at which the model looks at the clock
ClockTimes == <<time(6, 59, 59), time(7, 0, 0), time(14, 0, 0), time(22, 0, 0)>>

\* a title the analyzer wrote (any non-empty text)
TRANSLATED_TITLE == <<84>>

\* the analyzed_at the analyzer writes; the pipeline only tests it for NULL
ANALYZED_AT == strftime(1, 0)

\* the articles the crawler delivers: source, title, time of publication
\* (NO_DATE when the page gives none) and the status column of the new row
NO_DATE == 0 - 1

Feed ==
  { [source |-> "caixin", original_title |-> TITLE_POLICY,    tod |-> time(6, 59, 59),  status |-> "none"],
    [source |-> "xinhua", original_title |-> TITLE_MACRO,     tod |-> time(7, 0, 0),    status |-> "none"],
    [source |-> "caixin", original_title |-> TITLE_POLICY,    tod |-> time(21, 59, 59), status |-> "none"],
    [source |-> "caixin", original_title |-> TITLE_MACRO,     tod |-> time(22, 30, 0),  status |-> "none"],
    [source |-> "caixin", original_title |-> TITLE_EDITORIAL, tod |-> time(7, 0, 0),    status |-> "none"],
    [source |-> "ndrc",   original_title |-> TITLE_POLICY,    tod |-> time(6, 59, 59),  status |-> "none"],
    [source |-> "xinhua", original_title |-> TITLE_POLICY,    tod |-> time(6, 59, 59),  status |-> NULL] }

\* the row save_news inserts for an article at time t (crawler.py:1500-1511)
NewRow(a, t) ==
  [source |-> a.source,
   original_title |-> a.original_title,
   original_content |-> <<>>,
   translated_title |-> NULL_TEXT,
   importance_score |-> DefaultImportance,
   published_at |-> IF a.tod = NO_DATE THEN NULL_TEXT ELSE strftime(t.day, a.tod),
   analyzed_at |-> NULL_TEXT,
   expert_review_status |-> a.status,
   edition |-> NULL,
   updated_at |-> Stamp(t)]

Runners == {1}

\* the locals of an invocation before it starts
IdleRun ==
  [pc |-> "idle", edition_arg |-> NULL, edition |-> NULL, reset_count |-> 0,
   candidates |-> <<>>, filtered |-> <<>>, selected_ids |-> <<>>,
   updated_count |-> 0, steps |-> <<>>]

InitRun == [p \in Runners |-> IdleRun]

Init ==
  /\ store = <<>>
  /\ now = [day |-> 1, tod |-> ClockTimes[1]]
  /\ run = InitRun
  /\ news_list = <<>>
  /\ target_count = NOT_CALLED
  /\ selected = <<>>

Harness == <<news_list, target_count, selected>>

\* time passes to the next instant of the day, or to the next day
Tick ==
  /\ \E k \in 1..Len(ClockTimes) :
       /\ now.tod = ClockTimes[k]
       /\ IF k < Len(ClockTimes)
          THEN now' = [now EXCEPT !.tod = ClockTimes[k + 1]]
          ELSE /\ now.day < MaxDay
               /\ now' = [day |-> now.day + 1, tod |-> ClockTimes[1]]
  /\ UNCHANGED <<store, run, Harness>>

\* the crawler saves one article of today
Collect ==
  /\ Len(store) < NumRecords
  /\ \E a \in Feed : store' = Append(store, NewRow(a, now))
  /\ UNCHANGED <<now, run, Harness>>

\* the analyzer enriches a row: analyzed_at and translated_title are set
Analyze ==
  /\ \E id \in Ids :
       /\ store[id].analyzed_at = NULL_TEXT
       /\ store' = [store EXCEPT ![id].analyzed_at = ANALYZED_AT,
                                 ![id].translated_title = TRANSLATED_TITLE]
  /\ UNCHANGED <<now, run, Harness>>

\* the human review settles a queued row
Review ==
  /\ \E id \in Ids, outcome \in {"reviewed", "skipped"} :
       /\ store[id].expert_review_status = "queued_today"
       /\ store' = [store EXCEPT ![id].expert_review_status = outcome]
  /\ UNCHANGED <<now, run, Harness>>

(***************************************************************************)
(* run_edition_selection, step by step (daily_news_selector.py:231-267).   *)
(***************************************************************************)
\* Start without the call of reset_stale_queue
StartWithoutReset(p, arg) ==
  /\ run[p].pc \in {"idle", "done"}
  /\ run' = [run EXCEPT ![p] =
               [IdleRun EXCEPT
                  !.pc = "fetch",
                  !.edition_arg = arg,
                  !.edition = IF arg = NULL THEN get_current_edition(now.tod) ELSE arg]]
  /\ UNCHANGED <<store, now, Harness>>

\* run_edition_selection(edition): lines 241-245
Start(p, arg) ==
  /\ run[p].pc \in {"idle", "done"}
  /\ run' = [run EXCEPT ![p] =
               [IdleRun EXCEPT
                  !.pc = "reset",
                  !.edition_arg = arg,
                  !.edition = IF arg = NULL THEN get_current_edition(now.tod) ELSE arg]]
  /\ UNCHANGED <<store, now, Harness>>

\* the command line: --edition morning|afternoon|evening, or none
RunStart(p) == \E arg \in Editions \cup {NULL} : Start(p, arg)

\* reset_count = reset_stale_queue(): line 248
ResetStep(p) ==
  /\ run[p].pc = "reset"
  /\ store' = reset_stale_queue(store, now)
  /\ run' = [run EXCEPT ![p].pc = "fetch",
                        ![p].reset_count = Cardinality(StaleIds(store, now.day)),
                        ![p].steps = Append(@, "reset")]
  /\ UNCHANGED <<now, Harness>>

\* FetchStep with an empty fetch treated as a failure of the run
FetchStepRaising(p) ==
  /\ run[p].pc = "fetch"
  /\ \E cs \in get_eligible_candidates(store, run[p].edition, now.day) :
       run' = [run EXCEPT ![p].pc = IF cs = <<>> THEN "error" ELSE "filter",
                          ![p].candidates = cs,
                          ![p].steps = Append(@, "fetch")]
  /\ UNCHANGED <<store, now, Harness>>

\* candidates = get_eligible_candidates(conn, edition): lines 133-137
FetchStep(p) ==
  /\ run[p].pc = "fetch"
  /\ \E cs \in get_eligible_candidates(store, run[p].edition, now.day) :
       run' = [run EXCEPT ![p].pc = IF cs = <<>> THEN "commit" ELSE "filter",
                          ![p].candidates = cs,
                          ![p].steps = Append(@, "fetch")]
  /\ UNCHANGED <<store, now, Harness>>

\* filtered = filter_news(candidates): line 142
FilterStep(p) ==
  /\ run[p].pc = "filter"
  /\ run' = [run EXCEPT ![p].pc = "balance",
                        ![p].filtered = filter_news(run[p].candidates),
                        ![p].steps = Append(@, "filter_news")]
  /\ UNCHANGED <<store, now, Harness>>

\* the ids of a list of items
IdsOf(list) == [i \in 1..Len(list) |-> list[i].id]

\* selected = balance_categories(filtered, target_count); return the ids:
\* lines 145-155
BalanceStep(p) ==
  /\ run[p].pc = "balance"
  /\ run' = [run EXCEPT
               ![p].pc = "commit",
               ![p].selected_ids =
                  IdsOf(balance_categories(run[p].filtered, EditionTargetCount)),
               ![p].candidates = <<>>,
               ![p].filtered = <<>>,
               ![p].steps = Append(@, "balance_categories")]
  /\ UNCHANGED <<store, now, Harness>>

\* updated_count = update_selected_status(selected_ids, edition): line 254
CommitStep(p) ==
  /\ run[p].pc = "commit"
  /\ store' = update_selected_status(store, run[p].selected_ids, run[p].edition, now)
  /\ run' = [run EXCEPT
               ![p].pc = "done",
               ![p].candidates = <<>>,
               ![p].updated_count = UpdatedCount(store, run[p].selected_ids),
               ![p].steps = Append(@, "commit")]
  /\ UNCHANGED <<now, Harness>>

RunStep(p) ==
  \/ RunStart(p)
  \/ ResetStep(p)
  \/ FetchStep(p)
  \/ FilterStep(p)
  \/ BalanceStep(p)
  \/ CommitStep(p)

Next ==
  \/ Tick
  \/ Collect
  \/ Analyze
  \/ Review
  \/ \E p \in Runners : RunStep(p)

Spec == Init /\ [][Next]_vars

(***************************************************************************)
(* The clock read at any second of a day: an invocation without --edition  *)
(* starts at that second.                                                  *)
(***************************************************************************)
SecondsOfDay == 0..(time(23, 59, 59))

InitClock ==
  /\ store = <<>>
  /\ now \in [day : 1..MaxDay, tod : SecondsOfDay]
  /\ run = InitRun
  /\ news_list = <<>>
  /\ target_count = NOT_CALLED
  /\ selected = <<>>

NextClock == \E p \in Runners : Start(p, NULL)

SpecClock == InitClock /\ [][NextClock]_vars

(***************************************************************************)
(* A morning with more eligible articles than one run queues: the rows are *)
(* in the table, analyzed, when the first run starts.                      *)
(***************************************************************************)
\* rows in the table
QueueRecords == 12

QueueSources == <<"caixin", "xinhua", "36kr", "huxiu">>

QueueTitles == <<TITLE_POLICY, TITLE_MACRO>>

\* row i: published at 06:00:00 plus i minutes of day 1
QueueRow(i) ==
  [source |-> QueueSources[(i % Len(QueueSources)) + 1],
   original_title |-> QueueTitles[(i % Len(QueueTitles)) + 1],
   original_content |-> <<>>,
   translated_title |-> TRANSLATED_TITLE,
   importance_score |-> DefaultImportance,
   published_at |-> strftime(1, time(6, i % 60, 0)),
   analyzed_at |-> ANALYZED_AT,
   expert_review_status |-> "none",
   edition |-> NULL,
   updated_at |-> Stamp([day |-> 1, tod |-> ClockTimes[1]])]

InitQueue ==
  /\ store = [i \in 1..QueueRecords |-> QueueRow(i)]
  /\ now = [day |-> 1, tod |-> ClockTimes[1]]
  /\ run = InitRun
  /\ news_list = <<>>
  /\ target_count = NOT_CALLED
  /\ selected = <<>>

NextQueue ==
  \/ Tick
  \/ \E p \in Runners : RunStep(p)

SpecQueue == InitQueue /\ [][NextQueue]_vars

(***************************************************************************)
(* Direct calls of balance_categories: the candidate list is built item by *)
(* item, then the function is called once with some target_count.          *)
(***************************************************************************)
SelSources == {"caixin", "xinhua"}

SelCategories == {"policy", "macro", "industry", DEFAULT_CATEGORY}

\* (priority_score, published_at) pairs of the items
SelKeys ==
  { <<15, strftime(1, time(7, 0, 0))>>,
    <<13, strftime(1, time(7, 0, 0))>> }

\* target_count values of the calls
Targets == 0..(MaxLen + 1)

InitSel ==
  /\ store = <<>>
  /\ now = [day |-> 1, tod |-> ClockTimes[1]]
  /\ run = InitRun
  /\ news_list = <<>>
  /\ target_count = NOT_CALLED
  /\ selected = <<>>

\* the caller appends one more candidate to the list
AddCandidate ==
  /\ target_count = NOT_CALLED
  /\ Len(news_list) < MaxLen
  /\ \E s \in SelSources, c \in SelCategories, k \in SelKeys :
       news_list' = Append(news_list,
                           [id |-> Len(news_list) + 1, source |-> s, category |-> c,
                            priority_score |-> k[1], published_at |-> k[2]])
  /\ UNCHANGED <<store, now, run, target_count, selected>>

\* selected = balance_categories(news_list, target_count=tc)
CallBalance ==
  /\ target_count = NOT_CALLED
  /\ \E tc \in Targets :
       /\ target_count' = tc
       /\ selected' = balance_categories(news_list, tc)
  /\ UNCHANGED <<store, now, run, news_list>>

NextSel == AddCandidate \/ CallBalance

SpecSel == InitSel /\ [][NextSel]_vars

(***************************************************************************)
(* Claims about balance_categories, checked under SpecSel.                 *)
(***************************************************************************)
Called == target_count # NOT_CALLED

\* number of items of a list that come from source s
CountSource(list, s) == Cardinality({i \in 1..Len(list) : list[i].source = s})

\* C1: the list balance_categories returns holds at most 3 items of any one
\* source, and at most 2 items of any one source among those chosen in
\* phase 1 (the category round-robin).
C1_SourceCaps ==
  Called =>
    \A s \in SelSources :
      /\ CountSource(selected, s) <= 3
      /\ CountSource(Phase1Result(news_list, target_count).selected, s) <= 2

\* a source with 4 candidates, of which phase 1 took 2 and the result holds 3
C1_Witness ==
  /\ Called
  /\ \E s \in SelSources :
       /\ CountSource(news_list, s) = 4
       /\ CountSource(Phase1Result(news_list, target_count).selected, s) = 2
       /\ CountSource(selected, s) = 3

\* C2: for every target_count >= 0, balance_categories returns at most
\* target_count records (early return of phase 1 and final return alike).
C2_AtMostTarget == Called => Len(selected) <= target_count

\* C3 as stated: with fewer candidates than target_count, every candidate is
\* returned, whatever the distribution of sources.
C3_AllReturned ==
  (Called /\ Len(news_list) < target_count) => Len(selected) = Len(news_list)

\* C3 amended: with fewer candidates than target_count and no source on more
\* than 3 candidates, exactly the candidates are returned (each one once).
C3_AllReturnedUnderCap ==
  (/\ Called
   /\ Len(news_list) < target_count
   /\ \A s \in SelSources : CountSource(news_list, s) <= 3)
  => /\ Len(selected) = Len(news_list)
     /\ {selected[i].id : i \in 1..Len(selected)} = 1..Len(news_list)

\* four candidates, three of them of one source, all four returned
C3_Witness ==
  /\ Called
  /\ Len(news_list) = 4
  /\ Len(news_list) < target_count
  /\ \E s \in SelSources : CountSource(news_list, s) = 3
  /\ Len(selected) = 4

(***************************************************************************)
(* Claims about the edition scheduler.                                     *)
(***************************************************************************)
\* rows queued for edition e whose assignment is of today
QueuedToday(e) ==
  {id \in Ids : /\ store[id].expert_review_status = "queued_today"
                /\ store[id].edition = e
                /\ DATE(store[id].updated_at) = strftime_date(now.day)}

\* C4: after any sequence of serialized run_edition_selection invocations
\* within one calendar day, repeated ones for the same edition included, at
\* most 10 rows are queued_today for each edition.  Checked under SpecQueue.
C4_AtMostTenPerEdition ==
  \A e \in Editions : Cardinality(QueuedToday(e)) <= 10

\* C5: reset_stale_queue changes no field of a row whose updated_at date is
\* today, and no field of a row that is not queued_today; the rows it
\* changes are queued_today with an updated_at date strictly before today.
C5_ResetFrame ==
  [][\A p \in Runners :
       (run[p].pc = "reset" /\ run'[p].pc = "fetch") =>
         /\ Len(store') = Len(store)
         /\ \A id \in Ids :
              /\ DATE(store[id].updated_at) = strftime_date(now.day)
                   => store'[id] = store[id]
              /\ store[id].expert_review_status # "queued_today"
                   => store'[id] = store[id]
              /\ store'[id] # store[id]
                   => /\ store[id].expert_review_status = "queued_today"
                      /\ store[id].updated_at[1] < now.day]_vars

\* a reset has just put a stale row back while a row queued today stays
C5_Witness ==
  \E p \in Runners :
    /\ run[p].pc = "fetch"
    /\ run[p].reset_count = 1
    /\ \E id \in Ids :
         /\ store[id].expert_review_status = "queued_today"
         /\ DATE(store[id].updated_at) = strftime_date(now.day)
    /\ \E id \in Ids :
         /\ store[id].expert_review_status = "none"
         /\ store[id].edition = NULL
         /\ store[id].analyzed_at # NULL_TEXT

IsPrefix(s, t) == Len(s) <= Len(t) /\ SubSeq(t, 1, Len(s)) = s

\* the steps of a run that found candidates, and of one that found none
FullOrder == <<"reset", "fetch", "filter_news", "balance_categories", "commit">>
EmptyOrder == <<"reset", "fetch", "commit">>

\* rows that the step makes queued_today or whose edition it changes
Assigned ==
  {id \in Ids : \/ /\ store'[id].expert_review_status = "queued_today"
                   /\ store[id].expert_review_status # "queued_today"
                \/ /\ store'[id].edition # store[id].edition
                   /\ store'[id].edition # NULL}

\* C6: within every run the steps occur in the order reset, fetch,
\* filter_news, balance_categories, commit (a run that fetches nothing goes
\* from the fetch to the commit); the fetch comes after the reset, and rows
\* are assigned only by the commit, after the selection, and only the
\* selected ones.
C6_StepOrder ==
  /\ [](\A p \in Runners :
          IsPrefix(run[p].steps, FullOrder) \/ IsPrefix(run[p].steps, EmptyOrder))
  /\ [][Assigned # {} =>
          \E p \in Runners :
            /\ run[p].steps = SubSeq(FullOrder, 1, 4)
            /\ run'[p].steps = FullOrder
            /\ Assigned \subseteq IdSet(run[p].selected_ids)]_vars

\* a run went through all five steps and queued a row
C6_Witness ==
  \E p \in Runners :
    /\ run[p].pc = "done"
    /\ run[p].steps = FullOrder
    /\ run[p].updated_count > 0
    /\ \E id \in Ids : store[id].expert_review_status = "queued_today"

\* the timestamp string of the clock
NowString == strftime(now.day, now.tod)

\* C7: the three eligibility windows of one date are pairwise disjoint over
\* published_at, and a timestamp in [22:00:00, 23:59:59] of that date lies
\* inside none of them.  Checked under SpecClock, published_at being the
\* timestamp of any second of the date.
C7_WindowsDisjoint ==
  /\ \A e1, e2 \in Editions :
       e1 # e2 =>
         ~(/\ InWindow(NowString, get_edition_time_window(e1, now.day))
           /\ InWindow(NowString, get_edition_time_window(e2, now.day)))
  /\ (now.tod >= 22 * 3600 /\ now.tod <= 23 * 3600 + 59 * 60 + 59) =>
       \A e \in Editions :
         ~InWindow(NowString, get_edition_time_window(e, now.day))

\* 22:30:00 lies in no window, while 21:59:59 of the same date lies in one
C7_Witness ==
  /\ now.tod = 22 * 3600 + 30 * 60
  /\ \A e \in Editions : ~InWindow(NowString, get_edition_time_window(e, now.day))
  /\ InWindow(strftime(now.day, 21 * 3600 + 59 * 60 + 59),
              get_edition_time_window("evening", now.day))

\* the run p started without --edition and has done nothing else yet
AutoStarted(p) == run[p].pc = "reset" /\ run[p].edition_arg = NULL

\* C8: get_current_edition maps a time before 07:00 to morning, a time in
\* [07:00, 14:00) to afternoon and a time from 14:00 on to evening.
\* Checked under SpecClock (the clock does not move after the start).
C8_CurrentEdition ==
  \A p \in Runners :
    AutoStarted(p) =>
      /\ now.tod < 7 * 3600 => run[p].edition = "morning"
      /\ (now.tod >= 7 * 3600 /\ now.tod < 14 * 3600) => run[p].edition = "afternoon"
      /\ now.tod >= 14 * 3600 => run[p].edition = "evening"

\* at 07:00:00 sharp the detected edition is afternoon
C8_Witness ==
  \E p \in Runners :
    AutoStarted(p) /\ now.tod = 7 * 3600 /\ run[p].edition = "afternoon"

\* C9: a run started without --edition at the documented selection time of
\* an edition (07:00 morning, 14:00 afternoon, 22:00 evening) detects that
\* edition.  Checked under SpecClock.
C9_DocumentedSelectionTime ==
  \A p \in Runners :
    AutoStarted(p) =>
      /\ now.tod = 7 * 3600 => run[p].edition = "morning"
      /\ now.tod = 14 * 3600 => run[p].edition = "afternoon"
      /\ now.tod = 22 * 3600 => run[p].edition = "evening"


(***************************************************************************)
(* Direct calls of filter_news: a list of items, some carrying annotations *)
(* of an earlier pass, is filtered, and the result is filtered again.      *)
(***************************************************************************)
\* kept, dropped by is_factual_news, dropped by has_analytical_value unless
\* the content carries concrete terms
FilTitles == {TITLE_POLICY, TITLE_EDITORIAL, TITLE_SHORT}

FilContents == {<<>>, TITLE_FOREIGN}

FilSources == {"caixin", "beijing_gov"}

\* category, is_domestic, priority_score an item carries when it comes in
StoredAnnotations ==
  { [category |-> DEFAULT_CATEGORY, is_domestic |-> FALSE, priority_score |-> 0],
    [category |-> "tech", is_domestic |-> TRUE, priority_score |-> 15] }

\* items of a list given to filter_news
FilLen == 3

InitFil ==
  /\ store = <<>>
  /\ now = [day |-> 1, tod |-> ClockTimes[1]]
  /\ run = InitRun
  /\ news_list = <<>>
  /\ target_count = NOT_CALLED
  /\ selected = <<>>

\* the caller appends one more item to the list
AddItem ==
  /\ run[1].steps = <<>>
  /\ Len(news_list) < FilLen
  /\ \E t \in FilTitles, c \in FilContents, s \in FilSources, a \in StoredAnnotations :
       news_list' = Append(news_list,
                           [id |-> Len(news_list) + 1,
                            original_title |-> t,
                            original_content |-> c,
                            published_at |-> strftime(1, time(7, 0, 0)),
                            source |-> s,
                            category |-> a.category,
                            is_domestic |-> a.is_domestic,
                            priority_score |-> a.priority_score])
  /\ UNCHANGED <<store, now, run, target_count, selected>>

\* filtered = filter_news(news_list)
FilterOnce ==
  /\ run[1].steps = <<>>
  /\ run' = [run EXCEPT ![1].filtered = filter_news(news_list),
                        ![1].steps = <<"filter_news">>]
  /\ UNCHANGED <<store, now, Harness>>

\* filtered = filter_news(filtered): the argument is kept in candidates
FilterAgain ==
  /\ run[1].steps = <<"filter_news">>
  /\ run' = [run EXCEPT ![1].candidates = run[1].filtered,
                        ![1].filtered = filter_news(run[1].filtered),
                        ![1].steps = Append(@, "filter_news")]
  /\ UNCHANGED <<store, now, Harness>>

NextFil == AddItem \/ FilterOnce \/ FilterAgain

SpecFil == InitFil /\ [][NextFil]_vars

(***************************************************************************)
(* Claims about filter_news, checked under SpecFil.                        *)
(***************************************************************************)
\* the annotations filter_news writes on an item
AnnotationsOf(item) == <<item.category, item.is_domestic, item.priority_score>>

\* title, content and source of an item
TextOf(item) == <<item.original_title, item.original_content, item.source>>

\* C11: filter_news is idempotent: filter_news(filter_news(L)) holds exactly
\* the records of filter_news(L), in the same order and with the same
\* category, is_domestic and priority_score; these values depend only on
\* title, content and source, not on annotations the item carried before
\* and not on the other records.
C11_FilterIdempotent ==
  /\ run[1].steps = <<"filter_news", "filter_news">>
       => run[1].filtered = run[1].candidates
  /\ run[1].steps # <<>>
       => \A i, j \in 1..Len(run[1].filtered) :
            TextOf(run[1].filtered[i]) = TextOf(run[1].filtered[j])
              => AnnotationsOf(run[1].filtered[i]) = AnnotationsOf(run[1].filtered[j])

\* a list filtered twice: one item was dropped, two items with the same
\* title, content and source came in with different annotations, and the
\* pass overwrote the annotations of a kept item
C11_Witness ==
  /\ run[1].steps = <<"filter_news", "filter_news">>
  /\ Len(news_list) = 3
  /\ Len(run[1].filtered) = 2
  /\ \E i, j \in 1..3 :
       /\ i < j
       /\ TextOf(news_list[i]) = TextOf(news_list[j])
       /\ AnnotationsOf(news_list[i]) # AnnotationsOf(news_list[j])
       /\ \E k \in 1..2 : /\ run[1].filtered[k].id = i
                           /\ AnnotationsOf(run[1].filtered[k]) # AnnotationsOf(news_list[i])


(***************************************************************************)
(* Claims about the category diversity of balance_categories, checked     *)
(* under SpecSel.                                                          *)
(***************************************************************************)
\* the categories of the items of a list
CategoriesOf(list) == {list[i].category : i \in 1..Len(list)}

\* the main categories among them
MainCategoriesOf(list) ==
  CategoriesOf(list) \cap {main_categories[i] : i \in 1..Len(main_categories)}

\* number of items of a list that are of category c
CountCategory(list, c) == Cardinality({i \in 1..Len(list) : list[i].category = c})

\* no source occurs on more than two candidates
SourcesAtMostTwice == \A s \in SelSources : CountSource(news_list, s) <= 2

\* what C12 states of a call with n candidates of k main categories
Diverse ==
  LET n == Len(news_list)
      k == Cardinality(MainCategoriesOf(news_list))
  IN  /\ Len(selected) = Min(target_count, n)
      /\ Cardinality(CategoriesOf(selected)) >= Min(target_count, k)
      /\ \A c \in AllCategories :
           CountCategory(Phase1Result(news_list, target_count).selected, c) <= 1

\* C12: for n candidates in which no source occurs more than twice and
\* which hold k distinct main categories, balance_categories with
\* target_count T returns min(T, n) items spanning at least min(T, k)
\* distinct categories, phase 1 contributing at most one item per category.
C12_CategoryDiversity == (Called /\ SourcesAtMostTwice) => Diverse

\* C12 for target_count >= 1: the statement holds for every call but the
\* ones with target_count 0
C12_DiversityPositiveTarget ==
  (Called /\ SourcesAtMostTwice /\ target_count >= 1) => Diverse


(***************************************************************************)
(* Claims about the candidate fetch, checked under Spec.                   *)
(***************************************************************************)
\* every eligibility condition of the fetch but the ones on the status
EligibleButStatus(row, window) ==
  /\ row.analyzed_at # NULL_TEXT
  /\ row.published_at # NULL_TEXT
  /\ StrLE(window[1], row.published_at)
  /\ StrLE(row.published_at, window[2])
  /\ row.edition = NULL
  /\ CoalesceText(row.translated_title) # <<>>
  /\ row.source \notin excluded_sources

\* the ids a fetched list holds
FetchedIds(cs) == {cs[k].id : k \in 1..Len(cs)}

\* C13: a row whose status is NULL and which meets every other eligibility
\* condition is returned by get_eligible_candidates, as a row of status
\* 'none' is.  Stated of the fetch an invocation is about to make.
C13_NullStatusFetched ==
  \A p \in Runners :
    run[p].pc = "fetch" =>
      \A id \in Ids :
        (/\ store[id].expert_review_status = NULL
         /\ EligibleButStatus(store[id],
                              get_edition_time_window(run[p].edition, now.day)))
        => \A cs \in get_eligible_candidates(store, run[p].edition, now.day) :
             id \in FetchedIds(cs)


(***************************************************************************)
(* Claims about the commit step, checked under Spec.                       *)
(***************************************************************************)
\* C14: update_selected_status sets expert_review_status = queued_today,
\* edition = the edition of the run and updated_at = now on exactly the
\* selected ids and leaves every other row unchanged; with an empty
\* selection it writes nothing and reports 0 updated.
C14_CommitFrame ==
  [][\A p \in Runners :
       (run[p].pc = "commit" /\ run'[p].pc = "done") =>
         /\ Len(store') = Len(store)
         /\ \A id \in Ids :
              IF id \in IdSet(run[p].selected_ids)
              THEN store'[id] = [store[id] EXCEPT
                                   !.expert_review_status = "queued_today",
                                   !.edition = run[p].edition,
                                   !.updated_at = strftime_date(now.day)]
              ELSE store'[id] = store[id]
         /\ run'[p].updated_count = Len(run[p].selected_ids)
         /\ run[p].selected_ids = <<>>
              => (store' = store /\ run'[p].updated_count = 0)]_vars

\* a commit has queued one row for the edition of the run and left the
\* other row, which was not selected, as it was
C14_Witness ==
  \E p \in Runners :
    /\ run[p].pc = "done"
    /\ run[p].updated_count = 1
    /\ Len(store) = 2
    /\ \E id \in Ids :
         /\ id \in IdSet(run[p].selected_ids)
         /\ store[id].expert_review_status = "queued_today"
         /\ store[id].edition = run[p].edition
    /\ \E id \in Ids :
         /\ id \notin IdSet(run[p].selected_ids)
         /\ store[id].analyzed_at # NULL_TEXT
         /\ store[id].expert_review_status = "none"
         /\ store[id].edition = NULL


\* C15: in serialized runs every row with expert_review_status =
\* queued_today has a non-null edition and an updated_at whose date is the
\* date of the run that assigned it: the step that queues a row stamps it
\* with the edition of the run and the date of the clock, and a row that
\* stays queued keeps both.
C15_QueuedHasEditionAndDate ==
  /\ [](\A id \in Ids :
          store[id].expert_review_status = "queued_today"
            => /\ store[id].edition \in Editions
               /\ store[id].updated_at[1] \in 1..now.day)
  /\ [][\A id \in Ids :
          /\ (/\ store[id].expert_review_status # "queued_today"
              /\ store'[id].expert_review_status = "queued_today")
               => \E p \in Runners :
                    /\ run[p].pc = "commit"
                    /\ store'[id].edition = run[p].edition
                    /\ store'[id].updated_at = strftime_date(now.day)
          /\ (/\ store[id].expert_review_status = "queued_today"
              /\ store'[id].expert_review_status = "queued_today")
               => /\ store'[id].edition = store[id].edition
                  /\ store'[id].updated_at = store[id].updated_at]_vars

\* a row queued by a run of the day before, not yet reset: its updated_at
\* is the date of that run, not the date of the clock
C15_Witness ==
  /\ now.day = 2
  /\ \E id \in Ids :
       /\ store[id].expert_review_status = "queued_today"
       /\ store[id].edition \in Editions
       /\ store[id].updated_at = strftime_date(1)


\* C16: in serialized runs a row whose edition is non-null is never
\* returned by the candidate fetch and never re-stamped by a commit: its
\* edition keeps its value across every later run until a stale-queue
\* reset sets it back to NULL, so a row selected by one run is not selected
\* again by a later run of any edition while its edition stays set.
C16_EditionAssignedOnce ==
  /\ [](\A id \in Ids :
          store[id].edition # NULL
            => /\ \A e \in Editions : id \notin EligibleIds(store, e, now.day)
               /\ \A p \in Runners :
                    run[p].pc \in {"filter", "balance", "commit"}
                      => /\ id \notin FetchedIds(run[p].candidates)
                         /\ id \notin IdSet(run[p].selected_ids))
  /\ [][\A id \in Ids :
          store[id].edition # NULL
            => \/ store'[id] = store[id]
               \/ /\ store'[id].edition = store[id].edition
                  /\ store'[id].updated_at = store[id].updated_at
                  /\ \A p \in Runners : run'[p] = run[p]
               \/ /\ store'[id].edition = NULL
                  /\ \E p \in Runners : run[p].pc = "reset" /\ run'[p].pc = "fetch"]_vars

\* a later run of the morning edition has ended without selecting a row of
\* the morning window that an earlier run had assigned to that edition
C16_Witness ==
  \E p \in Runners :
    /\ run[p].pc = "done"
    /\ run[p].edition = "morning"
    /\ run[p].updated_count = 0
    /\ \E id \in Ids :
         /\ store[id].expert_review_status = "queued_today"
         /\ store[id].edition = "morning"
         /\ EligibleButStatus([store[id] EXCEPT !.edition = NULL],
                              get_edition_time_window("morning", now.day))


(***************************************************************************)
(* Two invocations of run_edition_selection at once.  Each function of the *)
(* run opens its own connection and commits before it returns, so the      *)
(* runs interleave between the reset, the fetch and the commit.            *)
(***************************************************************************)
RaceRunners == {1, 2}

\* analyzed rows of day 1: one of the morning window, one of the afternoon
RaceRow(i) ==
  [source |-> QueueSources[i],
   original_title |-> TITLE_POLICY,
   original_content |-> <<>>,
   translated_title |-> TRANSLATED_TITLE,
   importance_score |-> DefaultImportance,
   published_at |-> strftime(1, ClockTimes[i]),
   analyzed_at |-> ANALYZED_AT,
   expert_review_status |-> "none",
   edition |-> NULL,
   updated_at |-> Stamp([day |-> 1, tod |-> ClockTimes[1]])]

InitRace ==
  /\ store = [i \in 1..NumRecords |-> RaceRow(i)]
  /\ now = [day |-> 1, tod |-> ClockTimes[1]]
  /\ run = [p \in RaceRunners |-> IdleRun]
  /\ news_list = <<>>
  /\ target_count = NOT_CALLED
  /\ selected = <<>>

NextRace ==
  \/ Tick
  \/ \E p \in RaceRunners : RunStep(p)

SpecRace == InitRace /\ [][NextRace]_vars

(***************************************************************************)
(* Claims about overlapping invocations, checked under SpecRace.           *)
(***************************************************************************)
\* C17: overlapping invocations are not mutually safe: two runs can both
\* fetch the same unassigned row before either commits, both select it and
\* both commit an assignment for it; the later write overwrites the
\* earlier one and no conflict is detected.  Every commit, whatever the
\* other run has written since the fetch, stamps each selected row with
\* the edition of its run and reports every selected row as updated.
C17_CommitOverwritesSilently ==
  [][\A p \in RaceRunners :
       (run[p].pc = "commit" /\ run'[p].pc = "done") =>
         /\ run'[p].updated_count = Len(run[p].selected_ids)
         /\ \A id \in IdSet(run[p].selected_ids) :
              /\ store'[id].expert_review_status = "queued_today"
              /\ store'[id].edition = run[p].edition
              /\ store'[id].updated_at = strftime_date(now.day)]_vars

\* both runs have selected the same row and both have committed it: each
\* reports it as updated
C17_Witness ==
  /\ run[1].pc = "done"
  /\ run[2].pc = "done"
  /\ run[1].updated_count = 1
  /\ run[2].updated_count = 1
  /\ \E id \in Ids :
       /\ id \in IdSet(run[1].selected_ids)
       /\ id \in IdSet(run[2].selected_ids)
       /\ store[id].expert_review_status = "queued_today"

\* two runs that hold the same row are runs of the same edition: the
\* windows of two editions are disjoint, so the race never assigns a row
\* to two different editions
C17_RacingRunsShareEdition ==
  \A p, q \in RaceRunners :
    (IdSet(run[p].selected_ids) \cap IdSet(run[q].selected_ids) # {})
      => run[p].edition = run[q].edition


(***************************************************************************)
(* Claims about a run that finds nothing, checked under Spec.              *)
(***************************************************************************)
\* C18: a run that finds zero eligible candidates completes successfully:
\* the empty fetch leads to the commit and the commit to the end of the
\* run, with selected_ids empty, selected_count = 0 and updated_count = 0,
\* and neither step writes to the store (the reset before them is the only
\* write of the run).
C18_EmptyRunSucceeds ==
  /\ [](\A p \in Runners :
          /\ run[p].pc \in {"idle", "reset", "fetch", "filter", "balance", "commit", "done"}
          /\ run[p].steps = EmptyOrder
               => /\ run[p].pc = "done"
                  /\ run[p].selected_ids = <<>>
                  /\ Len(run[p].selected_ids) = 0
                  /\ run[p].updated_count = 0)
  /\ [][\A p \in Runners :
          /\ (run[p].pc = "fetch" /\ run'[p].pc # "fetch" /\ run'[p].candidates = <<>>)
               => /\ run'[p].pc = "commit"
                  /\ run'[p].selected_ids = <<>>
                  /\ store' = store
          /\ (run[p].pc = "commit" /\ run[p].selected_ids = <<>> /\ run'[p].pc # "commit")
               => /\ run'[p].pc = "done"
                  /\ run'[p].updated_count = 0
                  /\ store' = store]_vars

\* a run has ended after its reset put one stale row back and its fetch
\* found nothing
C18_Witness ==
  \E p \in Runners :
    /\ run[p].pc = "done"
    /\ run[p].steps = EmptyOrder
    /\ run[p].reset_count = 1
    /\ run[p].selected_ids = <<>>
    /\ run[p].updated_count = 0


(***************************************************************************)
(* Claims about the review status, checked under Spec.                     *)
(***************************************************************************)
\* the states the review writes
TerminalStatuses == {"reviewed", "skipped"}

\* a step of an invocation of run_edition_selection
PipelineStep == \E p \in Runners : run'[p] # run[p]

\* C19: the pipeline only performs the transitions none -> queued_today
\* (commit) and queued_today -> none (stale reset); it never sets a status
\* to skipped, reviewed or any other value, it never modifies a row whose
\* status is skipped or reviewed, and such rows are never fetched nor
\* selected.
C19_StatusTransitions ==
  /\ [](\A id \in Ids :
          store[id].expert_review_status \in TerminalStatuses
            => /\ \A e \in Editions : id \notin EligibleIds(store, e, now.day)
               /\ \A p \in Runners :
                    run[p].pc \in {"filter", "balance", "commit"}
                      => /\ id \notin FetchedIds(run[p].candidates)
                         /\ id \notin IdSet(run[p].selected_ids))
  /\ [](\A id \in Ids, e \in Editions, st \in TerminalStatuses :
          \* the status alone excludes the row, were its edition unset
          EligibleWhere([store[id] EXCEPT !.expert_review_status = st,
                                          !.edition = NULL],
                        get_edition_time_window(e, now.day)) # SqlTrue)
  /\ [][PipelineStep =>
          \A id \in Ids :
            /\ store'[id].expert_review_status # store[id].expert_review_status
                 => \/ /\ store[id].expert_review_status = "none"
                       /\ store'[id].expert_review_status = "queued_today"
                       /\ \E p \in Runners : run[p].pc = "commit"
                    \/ /\ store[id].expert_review_status = "queued_today"
                       /\ store'[id].expert_review_status = "none"
                       /\ \E p \in Runners : run[p].pc = "reset"
            /\ store[id].expert_review_status \in TerminalStatuses
                 => store'[id] = store[id]]_vars

\* on the day after, a run has reset a stale queued row and has ended,
\* while a row skipped the day before keeps its status, edition and date
C19_Witness ==
  /\ now.day = 2
  /\ \E p \in Runners : run[p].pc = "done" /\ run[p].reset_count = 1
  /\ \E id \in Ids :
       /\ store[id].expert_review_status = "skipped"
       /\ store[id].edition \in Editions
       /\ store[id].updated_at = strftime_date(1)


(***************************************************************************)
(* Runs over a table with malformed rows: an article saved without content *)
(* and an article saved without a date of publication, both analyzed.      *)
(***************************************************************************)
MalformedRows ==
  << [RaceRow(1) EXCEPT !.original_content = NULL_TEXT],
     [RaceRow(1) EXCEPT !.published_at = NULL_TEXT] >>

InitMalformed ==
  /\ store = MalformedRows
  /\ now = [day |-> 1, tod |-> ClockTimes[1]]
  /\ run = InitRun
  /\ news_list = <<>>
  /\ target_count = NOT_CALLED
  /\ selected = <<>>

NextMalformed ==
  \/ Tick
  \/ \E p \in Runners : RunStep(p)

SpecMalformed == InitMalformed /\ [][NextMalformed]_vars

(***************************************************************************)
(* Claims about malformed rows, checked under SpecMalformed.               *)
(***************************************************************************)
\* the eligibility conditions that concern neither content nor published_at
EligibleButDate(row) ==
  /\ row.analyzed_at # NULL_TEXT
  /\ row.expert_review_status = "none"
  /\ row.edition = NULL
  /\ row.importance_score <= MaxImportance
  /\ CoalesceText(row.translated_title) # <<>>
  /\ row.source \notin excluded_sources

\* the row is in every list the fetch of run p may return
AlwaysFetched(p, id) ==
  \A cs \in get_eligible_candidates(store, run[p].edition, now.day) :
    id \in FetchedIds(cs)

TOKENS ==
  <<
    <<25919, 31574>>,  \* 政策: policy and concrete term
    <<22686, 38271>>,  \* 增长: macro and concrete term
    <<26032, 33021, 28304>>,  \* 新能源: two energy terms
    <<25216, 26415>>,  \* 技术: tech term
    <<38134, 34892>>,  \* 银行: finance term
    <<31038, 35770>>,  \* 社论: exclusion term
    <<24178, 37096>>,  \* 干部: government-administrative term
    <<21360, 21457>>,  \* 印发: issuance marker
    <<21150, 20844>>,  \* 办公: office marker
    <<53, 37>>,  \* 5%: numeric pattern
    <<21457, 24067>>,  \* 发布: concrete term of no category
    <<20170, 22825, 19978, 21320, 22312, 21271, 20140, 20030>>,  \* 今天上午在北京举: 8 characters, no keyword
    <<34892, 20102, 19968, 27425, 20840, 20307, 20250>>   \* 行了一次全体会: 7 characters, no keyword
  >>

\* terms of a title
MaxTokens == 3

RECURSIVE ConcatTokens(_)
ConcatTokens(ts) ==
  IF ts = <<>> THEN <<>> ELSE TOKENS[Head(ts)] \o ConcatTokens(Tail(ts))

TextTitles ==
  {ConcatTokens(ts) : ts \in UNION {[1..n -> 1..Len(TOKENS)] : n \in 0..MaxTokens}}

\* no content, or 公布 (a concrete term of no category)
TextContents == {<<>>, <<20844, 24067>>}

InitText ==
  /\ store = <<>>
  /\ now = [day |-> 1, tod |-> ClockTimes[1]]
  /\ run = InitRun
  /\ \E t \in TextTitles, c \in TextContents :
       news_list = <<[id |-> 1,
                      original_title |-> t,
                      original_content |-> c,
                      published_at |-> strftime(1, time(7, 0, 0)),
                      source |-> "caixin"]>>
  /\ target_count = NOT_CALLED
  /\ selected = <<>>

\* news['category'] = categorize_news(title, content)
CategorizeText ==
  /\ selected = <<>>
  /\ selected' = <<[id |-> news_list[1].id,
                    category |-> categorize_news(news_list[1].original_title,
                                                 news_list[1].original_content)]>>
  /\ UNCHANGED <<store, now, run, news_list, target_count>>

\* filtered = filter_news(news_list)
FilterText ==
  /\ run[1].steps = <<>>
  /\ run' = [run EXCEPT ![1].filtered = filter_news(news_list),
                        ![1].steps = <<"filter_news">>]
  /\ UNCHANGED <<store, now, Harness>>

NextText == CategorizeText \/ FilterText

SpecText == InitText /\ [][NextText]_vars

(***************************************************************************)
(* Claims about categorize_news and filter_news, checked under SpecText.   *)
(***************************************************************************)
\* title + content of the article
Combined == news_list[1].original_title \o news_list[1].original_content

\* the keyword-match count of the i-th category
Score(i) == CountKeywords(Combined, CATEGORIES[i])

Categorized == selected # <<>>

\* C21: category assignment always succeeds, and when the text holds no
\* keyword of any of the 7 topic categories (all counts zero)
\* categorize_news assigns the default category, not a topic category.
C21_DefaultWhenNoKeyword ==
  Categorized =>
    /\ selected[1].category \in AllCategories
    /\ (\A i \in 1..Len(CATEGORIES) : Score(i) = 0)
         => selected[1].category = DEFAULT_CATEGORY


\* the position of a category in the declaration order (0 for the default)
IndexOfCategory(c) ==
  IF \E i \in 1..Len(main_categories) : main_categories[i] = c
  THEN CHOOSE i \in 1..Len(main_categories) : main_categories[i] = c
  ELSE 0

\* C24: categorize_news returns the category with the highest keyword-match
\* count; when several categories tie for the highest count, the one
\* declared first in the fixed category order wins.
C24_HighestCountFirstDeclared ==
  Categorized =>
    LET b == IndexOfCategory(selected[1].category)
    IN  /\ b \in 1..Len(CATEGORIES)
        /\ \A j \in 1..Len(CATEGORIES) : Score(j) <= Score(b)
        /\ \A j \in 1..(b - 1) : Score(j) < Score(b)

\* macro and tech tie at one match, policy has none: macro, declared
\* before tech, is returned
C24_Witness ==
  /\ Categorized
  /\ Score(1) = 0
  /\ Score(2) = 1
  /\ Score(7) = 1
  /\ \A j \in 1..Len(CATEGORIES) : Score(j) <= 1
  /\ selected[1].category = "macro"


(***************************************************************************)
(* Faults.  reset_stale_queue, select_edition_news and                     *)
(* update_selected_status each open a connection, work inside `try` and    *)
(* close the connection in `finally`; run_edition_selection catches        *)
(* nothing.  A fault is raised at the connect, at the execute, in the      *)
(* filter and selector calls (inside the `try` of select_edition_news), or *)
(* at the commit of a write.                                               *)
(***************************************************************************)
\* the places of a step where a fault may be raised
FaultPoints(pc) ==
  CASE pc = "reset" -> {"connect", "execute", "commit"}
    [] pc = "fetch" -> {"connect", "execute"}
    [] pc \in {"filter", "balance"} -> {"call"}
    [] pc = "commit" -> {"connect", "execute", "commit"}
    [] OTHER -> {}

\* what becomes of the connection of the step, were there no `finally`
connection_left_open(point) ==
  IF point = "connect" THEN "no connection" ELSE "connection open"

\* what becomes of the connection of the step when the fault is raised:
\* get_connection() failed, or `finally: conn.close()` has run
connection_after_fault(point) ==
  IF point = "connect" THEN "no connection" ELSE "connection closed"

\* the fault leaves run_edition_selection: the connection is closed without
\* a commit, so nothing of the failing step is written
Fault(p) ==
  \* update_selected_status returns before it connects when news_ids is empty
  /\ ~(run[p].pc = "commit" /\ run[p].selected_ids = <<>>)
  /\ \E point \in FaultPoints(run[p].pc) :
       run' = [run EXCEPT ![p].pc = "failed",
                          ![p].steps = Append(@, connection_after_fault(point))]
  /\ UNCHANGED <<store, now, Harness>>

\* the next scheduled invocation after a failed one
StartAfterFault(p) ==
  /\ run[p].pc = "failed"
  /\ \E arg \in Editions \cup {NULL} :
       run' = [run EXCEPT ![p] =
                 [IdleRun EXCEPT
                    !.pc = "reset",
                    !.edition_arg = arg,
                    !.edition = IF arg = NULL THEN get_current_edition(now.tod) ELSE arg]]
  /\ UNCHANGED <<store, now, Harness>>

InitFault ==
  /\ store = [i \in 1..NumRecords |-> RaceRow(i)]
  /\ now = [day |-> 1, tod |-> ClockTimes[1]]
  /\ run = InitRun
  /\ news_list = <<>>
  /\ target_count = NOT_CALLED
  /\ selected = <<>>

NextFault ==
  \/ Tick
  \/ \E p \in Runners : RunStep(p)
  \/ \E p \in Runners : Fault(p)
  \/ \E p \in Runners : StartAfterFault(p)

SpecFault == InitFault /\ [][NextFault]_vars

(***************************************************************************)
(* Claims about faults, checked under SpecFault.                           *)
(***************************************************************************)
\* the last entry of the log of a run
LastStep(p) == run[p].steps[Len(run[p].steps)]

\* C22: a fault in any step propagates out of run_edition_selection without
\* internal retry: no later step of that run is executed (the run does
\* nothing more until a new invocation starts afresh), the connection the
\* failing step opened is closed, and the failing step writes nothing; a
\* run that aborts after the fetch and before the end of the commit has
\* written no assignment, so every row it fetched or selected is still
\* unassigned and the next invocation can select it again.
C22_FaultPropagates ==
  /\ [](\A p \in Runners :
          run[p].pc = "failed"
            => /\ LastStep(p) \in {"no connection", "connection closed"}
               /\ \A k \in 1..(Len(run[p].steps) - 1) :
                    run[p].steps[k] \in {"reset", "fetch", "filter_news", "balance_categories"}
               /\ \A id \in FetchedIds(run[p].candidates) \cup IdSet(run[p].selected_ids) :
                    /\ store[id].expert_review_status = "none"
                    /\ store[id].edition = NULL
                    /\ id \in EligibleIds(store, run[p].edition, now.day)
                         \/ DATE(store[id].published_at) # strftime_date(now.day))
  /\ [][\A p \in Runners :
          /\ (run[p].pc # "failed" /\ run'[p].pc = "failed") => store' = store
          /\ run[p].pc = "failed"
               => \/ run'[p] = run[p]
                  \/ (run'[p].pc = "reset" /\ run'[p].steps = <<>> /\ store' = store)]_vars

\* a run has failed in its commit, after it selected a row: the row is
\* still unassigned and eligible for the edition of the run
C22_Witness ==
  \E p \in Runners :
    /\ run[p].pc = "failed"
    /\ run[p].steps = SubSeq(FullOrder, 1, 4) \o <<"connection closed">>
    /\ run[p].selected_ids # <<>>
    /\ \A id \in IdSet(run[p].selected_ids) :
         /\ store[id].edition = NULL
         /\ id \in EligibleIds(store, run[p].edition, now.day)


(***************************************************************************)
(* Claims about the stale-queue reset, checked under Spec.                 *)
(***************************************************************************)
\* rows queued_today whose updated_at date is strictly before today
StaleRows(table) ==
  {id \in 1..Len(table) :
     /\ table[id].expert_review_status = "queued_today"
     /\ table[id].updated_at[1] < now.day}

\* C23: after reset_stale_queue completes, no row remains queued_today
\* with an updated_at date strictly before today: every such row has
\* status none and edition NULL, and the count returned is the number of
\* rows reset.
C23_ResetClearsStale ==
  [][\A p \in Runners :
       (run[p].pc = "reset" /\ run'[p].pc = "fetch") =>
         /\ StaleRows(store') = {}
         /\ \A id \in StaleRows(store) :
              /\ store'[id].expert_review_status = "none"
              /\ store'[id].edition = NULL
         /\ run'[p].reset_count = Cardinality(StaleRows(store))
         /\ run'[p].reset_count = Cardinality({id \in Ids : store'[id] # store[id]})]_vars

\* a reset of day 2 has put back the two rows queued on day 1
C23_Witness ==
  \E p \in Runners :
    /\ now.day = 2
    /\ run[p].pc = "fetch"
    /\ run[p].reset_count = 2
    /\ \A id \in Ids :
         /\ store[id].expert_review_status = "none"
         /\ store[id].edition = NULL
         /\ store[id].updated_at = strftime_date(2)


(***************************************************************************)
(* Claims about the two phases of balance_categories, checked under        *)
(* SpecSel.                                                                *)
(***************************************************************************)
\* the items phase 1 selected
P1 == Phase1Result(news_list, target_count).selected

\* y comes before x in descending (priority_score, published_at) order,
\* exact ties in input order (the id of an item is its input position)
Precedes(y, x) ==
  \/ KeyLess(x, y)
  \/ /\ ~KeyLess(y, x)
     /\ y.id < x.id

\* the selections of source s among the items p1 of phase 1 that are of
\* the categories declared before the i-th
TakenBefore(p1, s, i) ==
  Cardinality({k \in 1..Len(p1) :
                 /\ p1[k].source = s
                 /\ IndexOfCategory(p1[k].category) < i})

\* the candidates of the i-th main category
GroupOf(i) ==
  {k \in 1..Len(news_list) : news_list[k].category = main_categories[i]}

\* phase 1 has returned at a category declared before the i-th: the check
\* of line 141 is made for every category that has candidates
ReturnedBefore(p1, i) ==
  \E j \in 1..(i - 1) :
    /\ GroupOf(j) # {}
    /\ Cardinality({k \in 1..Len(p1) : IndexOfCategory(p1[k].category) <= j})
         >= target_count

Filtered == run[1].steps # <<>>

\* the text holds one of the terms
HoldsTerm(kws) == \E k \in 1..Len(kws) : Contains(Combined, kws[k])

\* C26: filter_news keeps a record if and only if its text holds no
\* exclusion term and no government-administrative term, its title does
\* not hold both the issuance marker and the office marker, and at least
\* one of: the text matches a numeric/monetary pattern, the text holds at
\* least two concrete-content keywords, the title is longer than 15
\* characters; every kept record carries category, is_domestic and
\* priority_score, and every other record is dropped.
C26_KeptIffGatesPass ==
  Filtered =>
    LET title == news_list[1].original_title
        gates ==
          /\ ~HoldsTerm(EXCLUDED_KEYWORDS)
          /\ ~HoldsTerm(GOVERNMENT_ADMIN_KEYWORDS)
          /\ ~(Contains(title, ISSUANCE_MARKER) /\ Contains(title, OFFICE_MARKER))
          /\ \/ MatchesDataPattern(Combined)
             \/ Cardinality({k \in 1..Len(CONCRETE_KEYWORDS) :
                               Contains(Combined, CONCRETE_KEYWORDS[k])}) >= 2
             \/ Len(title) > 15
    IN  /\ gates <=> Len(run[1].filtered) = 1
        /\ ~gates <=> run[1].filtered = <<>>
        /\ \A k \in 1..Len(run[1].filtered) :
             /\ run[1].filtered[k].id = news_list[1].id
             /\ {"category", "is_domestic", "priority_score"}
                  \subseteq DOMAIN run[1].filtered[k]
             /\ run[1].filtered[k].category \in AllCategories
             /\ run[1].filtered[k].is_domestic \in BOOLEAN
             /\ run[1].filtered[k].priority_score \in 0..15

\* a title of 16 characters with no term, no pattern and no content is
\* kept on its length alone
C26_Witness ==
  /\ Filtered
  /\ Len(news_list[1].original_title) = 16
  /\ news_list[1].original_content = <<>>
  /\ ~MatchesDataPattern(Combined)
  /\ ~HoldsTerm(CONCRETE_KEYWORDS)
  /\ Len(run[1].filtered) = 1

\* a title of 15 characters with no term, no pattern and no content is
\* dropped
C26_WitnessDropped ==
  /\ Filtered
  /\ Len(news_list[1].original_title) = 15
  /\ news_list[1].original_content = <<>>
  /\ ~HoldsTerm(EXCLUDED_KEYWORDS)
  /\ ~HoldsTerm(GOVERNMENT_ADMIN_KEYWORDS)
  /\ run[1].filtered = <<>>


(***************************************************************************)
(* C27: the window of a fetch lies on the current date.                    *)
(***************************************************************************)
\* the rows whose publication day has passed
PublishedEarlier ==
  {id \in Ids : /\ store[id].published_at # NULL_TEXT
                /\ StrLess(DATE(store[id].published_at), strftime_date(now.day))}

\* C27: a record whose published_at date is not the current date at fetch
\* time is never selected by any run: every candidate list a fetch can
\* return holds only rows published on the current date, inside the window
\* the run queries, and no row whose publication day has passed, a row the
\* stale-queue reset returned to status none included, is eligible for any
\* edition.  Checked under Spec.
C27_OnlyTodayFetched ==
  /\ \A e \in Editions : EligibleIds(store, e, now.day) \cap PublishedEarlier = {}
  /\ \A p \in Runners :
       run[p].pc = "fetch" =>
         \A cs \in get_eligible_candidates(store, run[p].edition, now.day) :
           \A k \in 1..Len(cs) :
             /\ DATE(cs[k].published_at) = strftime_date(now.day)
             /\ InWindow(cs[k].published_at,
                         get_edition_time_window(run[p].edition, now.day))

\* a run of the second day reset a row queued on the first day, found it
\* eligible in everything but its publication day, and selected nothing
C27_Witness ==
  \E p \in Runners :
    /\ now.day = 2
    /\ run[p].pc = "done"
    /\ run[p].reset_count = 1
    /\ run[p].selected_ids = <<>>
    /\ \E id \in Ids :
         /\ store[id].expert_review_status = "none"
         /\ store[id].updated_at = strftime_date(2)
         /\ DATE(store[id].published_at) = strftime_date(1)
         /\ EligibleButStatus(store[id],
                              get_edition_time_window(run[p].edition, 1))


(***************************************************************************)
(* C28: the edition of a row follows from its time of publication.         *)
(***************************************************************************)
\* the editions whose window, on the day of publication, holds published_at
EditionsOfPublication(published_at) ==
  {e \in Editions :
     InWindow(published_at, get_edition_time_window(e, published_at[1]))}

\* C28: every edition stamped by a commit matches the publication time of
\* the row: a row assigned edition e has a published_at whose time of day
\* lies inside the window of e and of no other edition; the same holds of
\* every row a run has fetched or selected and the edition of that run, so
\* two runs for different editions, one after the other or overlapping,
\* never select the same row, and no step changes the edition of a row
\* into a different edition.  Checked under SpecRace.
C28_EditionMatchesPublication ==
  /\ [](\A id \in Ids :
          store[id].edition # NULL
            => EditionsOfPublication(store[id].published_at) = {store[id].edition})
  /\ [](\A p \in RaceRunners :
          \A id \in FetchedIds(run[p].candidates) \cup IdSet(run[p].selected_ids) :
            EditionsOfPublication(store[id].published_at) = {run[p].edition})
  /\ [][\A id \in Ids :
          /\ store'[id].published_at = store[id].published_at
          /\ (store[id].edition # NULL /\ store'[id].edition # NULL)
               => store'[id].edition = store[id].edition]_vars

\* two runs for different editions have both committed a selection, and
\* each row carries the edition of the window it was published in
C28_Witness ==
  \E p, q \in RaceRunners :
    /\ run[p].pc = "done" /\ run[q].pc = "done"
    /\ run[p].edition = "morning" /\ run[q].edition = "afternoon"
    /\ run[p].updated_count = 1 /\ run[q].updated_count = 1
    /\ IdSet(run[p].selected_ids) \cap IdSet(run[q].selected_ids) = {}
    /\ \E i, j \in Ids :
         /\ store[i].edition = "morning" /\ store[j].edition = "afternoon"
         /\ store[i].expert_review_status = "queued_today"
         /\ store[j].expert_review_status = "queued_today"


(***************************************************************************)
(* C29: the fill of phase 2 is greedy.  Checked under SpecSel.             *)
(***************************************************************************)
\* the candidates the call left out of its result
Unselected ==
  {i \in 1..Len(news_list) :
     news_list[i].id \notin {selected[k].id : k \in 1..Len(selected)}}

\* C29: balance_categories fills greedily to the limit: whenever it returns
\* fewer than target_count items, every candidate left unselected belongs to
\* a source that already has 3 items in the result; hence with
\* target_count >= 1 the result has exactly min(target_count, number of
\* candidates) items whenever no source has more than 3 candidates.
C29_GreedyFill ==
  Called =>
    /\ Len(selected) < target_count
         => \A i \in Unselected : CountSource(selected, news_list[i].source) = 3
    /\ (/\ target_count >= 1
        /\ \A s \in SelSources : CountSource(news_list, s) <= 3)
         => Len(selected) = Min(target_count, Len(news_list))

\* four candidates of one source and a target above three: three are
\* returned and the fourth is left out
C29_Witness ==
  /\ Called
  /\ Len(news_list) = 4
  /\ target_count > 3
  /\ Len(selected) = 3
  /\ Unselected # {}
  /\ \A i \in Unselected : CountSource(selected, news_list[i].source) = 3


(***************************************************************************)
(* C30: the result of balance_categories is drawn from its input, each     *)
(* item at most once.                                                      *)
(***************************************************************************)
\* no two positions of a sequence of ids hold the same id
PairwiseDistinct(ids) ==
  \A i, j \in 1..Len(ids) : i # j => ids[i] # ids[j]

\* C30: the result of balance_categories is a duplicate-free sub-collection
\* of its input: every returned record is one of the input candidates and
\* no candidate (id) appears twice, an item chosen in phase 1 being removed
\* from its group before phase 2 pools the remainder.  Checked under
\* SpecSel.
C30_ResultFromInputOnce ==
  Called =>
    /\ \A k \in 1..Len(selected) :
         \E i \in 1..Len(news_list) : selected[k] = news_list[i]
    /\ PairwiseDistinct(IdsOf(selected))
    /\ LET p1 == Phase1Result(news_list, target_count)
       IN  \A k \in 1..Len(p1.selected) :
             \A c \in DOMAIN p1.by_category :
               \A i \in 1..Len(p1.by_category[c]) :
                 p1.by_category[c][i].id # p1.selected[k].id

\* phase 1 chose an item, phase 2 added others, and every candidate of the
\* list is in the result
C30_Witness ==
  /\ Called
  /\ Len(news_list) = 4
  /\ Len(selected) = 4
  /\ Len(P1) \in 1..3

\* C30, for the runs: the selected_ids of a run are pairwise distinct ids of
\* the candidates it fetched.  Checked under Spec.
C30_SelectedIdsOfRun ==
  [][\A p \in Runners :
       (run[p].pc = "balance" /\ run'[p].pc = "commit")
         => /\ PairwiseDistinct(run'[p].selected_ids)
            /\ IdSet(run'[p].selected_ids) \subseteq FetchedIds(run[p].candidates)]_vars

\* a run about to commit a selection of two rows
C30_WitnessOfRun ==
  \E p \in Runners :
    /\ run[p].pc = "commit"
    /\ Len(run[p].selected_ids) = 2

====
